---- MODULE Spec2Model ----
(***************************************************************************)
(* ObsidianUltimateGuide (src/components/obsidian-ultimate-guide.tsx):     *)
(* the particle-network effect of the hero canvas and the scroll reveal    *)
(* observer, as a state machine.                                           *)
(*                                                                         *)
(* Real numbers are fixed-point integers: a coordinate, a velocity, a size *)
(* or a distance n stands for n/Unit pixels; Math.random() yields          *)
(* k/RandDen with k in 0..RandDen-1.  canvas.width, canvas.height,         *)
(* offsetWidth and offsetHeight are whole pixels, as in the DOM.           *)
(***************************************************************************)
EXTENDS Integers, Sequences, FiniteSets, TLC

VARIABLES
    mounted,        \* the component instance is mounted (React keeps its state)
    surface,        \* "ok" | "noCanvas" | "noContext": what lines 44-48 find
    offsetWidth,    \* canvas.offsetWidth, the laid-out size (host)
    offsetHeight,   \* canvas.offsetHeight
    width,          \* canvas.width
    height,         \* canvas.height
    listener,       \* resizeCanvas is registered on window
    pstate,         \* particle effect: "idle" | "active" | "skipped" | "cleaned"
    activation,     \* number of runs of the particle effect so far
    particles,      \* the particles array of the live closure (<<>>: none is live)
    animationId,    \* the live closure's animationId (0: not assigned)
    rafPending,     \* the host's pending frame requests: [id, act]
    nextHandle,     \* the next handle requestAnimationFrame returns
    examined,       \* index pairs the last animate() examined, in order
    lines,          \* connecting lines the last animate() stroked, in order
    frames,         \* frame callbacks run so far
    staleFrames,    \* frame callbacks run for an activation already torn down
    inverted,       \* [x, y]: indices whose vx / vy the last update() inverted
    invertedBefore, \* the same for the update() before the last one
    resizedBetween, \* a resize was handled between those two updates
    resizedSince,   \* a resize was handled since the last update()
    dimsAtUpdate,   \* <<c.width, c.height>> read by the last update()
    dimsBefore,     \* <<canvas.width, canvas.height>> before the last resize
    maxWidth,       \* largest canvas.width of the latest activation
    maxHeight,      \* largest canvas.height of the latest activation
    resized,        \* a resize was handled since the particles were created
    created,        \* the particles of the live closure as their constructor left them
    obs,            \* reveal effect: "idle" | "observing" | "disconnected"
    observed,       \* ids of the sections the observer watches
    isVisible,      \* the isVisible state: a map from section id to TRUE
    reported,       \* ids ever reported with a ratio >= threshold
    leftWhileVisible, \* a callback saw a section not intersecting whose flag was set
    event,          \* the batch of entries a callback invocation is replayed on
    before,         \* the isVisible state before the first of these invocations
    applications    \* the number of these invocations so far

pvars == <<surface, offsetWidth, offsetHeight, width, height, listener, pstate,
           activation, particles, animationId, rafPending, nextHandle, examined,
           lines, frames, staleFrames, inverted, invertedBefore,
           resizedBetween, resizedSince, dimsAtUpdate, dimsBefore, maxWidth,
           maxHeight, resized, created>>
rvars == <<obs, observed, isVisible, reported, leftWhileVisible>>
mvars == <<event, before, applications>>
vars == <<mounted, pvars, rvars, mvars>>

---------------------------------------------------------------------------
(* Bounds of the model. *)

\* coordinates count 1/Unit of a pixel
Unit == 8
\* Math.random() returns a multiple of 1/RandDen
RandDen == 16
\* seeds of the random source tried per activation
NumSeeds == 2
\* frame callbacks
MaxFrames == 3
\* runs of each effect (a remount re-runs the effect after its cleanup)
MaxActivations == 2
\* entries per observer callback invocation
MaxBatch == 2
\* invocations of the callback on one batch
MaxApplications == 2

(* Program constants. *)
particleCount == 80
connectDistance == 150
thresholdNum == 1
thresholdDen == 10
defaultCanvasWidth == 300
defaultCanvasHeight == 150

\* the sizes the layout gives the canvas: the hero section, and a collapsed one
LayoutSizes == {<<160, 120>>, <<1, 1>>}
Surfaces == {"ok", "noCanvas", "noContext"}
\* the ids of the [data-animate] sections
Sections == {"concepts", "features", "hotkeys", "advanced"}
\* visible fractions an intersecting entry reports, as <<numerator, denominator>>
Ratios == {<<1, 20>>, <<1, 2>>}

---------------------------------------------------------------------------
(* Arithmetic. *)

Abs(a) == IF a < 0 THEN -a ELSE a

\* a / b on the grid, rounded towards zero (b > 0)
Quot(a, b) == IF a >= 0 THEN a \div b ELSE -((-a) \div b)

RECURSIVE Newton(_, _)
Newton(n, x) ==
    LET y == (x + n \div x) \div 2
    IN  IF y >= x THEN x ELSE Newton(n, y)

\* Math.sqrt on the fixed-point grid: the largest d with d*d <= n, by Newton's
\* iteration from a start value above the root
Sqrt(n, above) == IF n = 0 THEN 0 ELSE Newton(n, above)

\* Math.random(): the n-th draw of the source seeded with seed, as k of k/RandDen
Random(seed, n) ==
    (((2 * seed + 1) * n * n + 37 * n + 13 * seed) % 1021) % RandDen

---------------------------------------------------------------------------
(* Particle. *)

\* new Particle(): the five draws start at draw number n
NewParticle(seed, n, w, h) ==
    [x    |-> (Random(seed, n) * w * Unit) \div RandDen,
     y    |-> (Random(seed, n + 1) * h * Unit) \div RandDen,
     vx   |-> Quot((2 * Random(seed, n + 2) - RandDen) * Unit, 4 * RandDen),
     vy   |-> Quot((2 * Random(seed, n + 3) - RandDen) * Unit, 4 * RandDen),
     size |-> (Random(seed, n + 4) * 2 * Unit) \div RandDen + Unit]

OutsideX(x, w) == x < 0 \/ x > w * Unit
OutsideY(y, h) == y < 0 \/ y > h * Unit

\* update() without the inversions of lines 79-80
UpdateNoBounce(p, w, h) == [p EXCEPT !.x = p.x + p.vx, !.y = p.y + p.vy]

\* update() with a bounce that loses speed: vx *= -0.5
UpdateDamped(p, w, h) ==
    LET x == p.x + p.vx
        y == p.y + p.vy
    IN  [p EXCEPT !.x = x,
                  !.y = y,
                  !.vx = IF OutsideX(x, w) THEN Quot(p.vx * (-1), 2) ELSE p.vx,
                  !.vy = IF OutsideY(y, h) THEN Quot(p.vy * (-1), 2) ELSE p.vy]

\* update() with the inversions on the wrong components
UpdateWrongAxis(p, w, h) ==
    LET x == p.x + p.vx
        y == p.y + p.vy
    IN  [p EXCEPT !.x = x,
                  !.y = y,
                  !.vx = IF OutsideY(y, h) THEN p.vx * (-1) ELSE p.vx,
                  !.vy = IF OutsideX(x, w) THEN p.vy * (-1) ELSE p.vy]

\* Particle.update()
Update(p, w, h) ==
    LET x == p.x + p.vx
        y == p.y + p.vy
    IN  [p EXCEPT !.x = x,
                  !.y = y,
                  !.vx = IF OutsideX(x, w) THEN p.vx * (-1) ELSE p.vx,
                  !.vy = IF OutsideY(y, h) THEN p.vy * (-1) ELSE p.vy]

\* the loop of lines 95-97 with i <= particleCount for i < particleCount
CreateParticlesOneMore(seed, w, h) ==
    [i \in 1..(particleCount + 1) |-> NewParticle(seed, 5 * (i - 1) + 1, w, h)]

\* the loop of lines 95-97
CreateParticles(seed, w, h) ==
    [i \in 1..particleCount |-> NewParticle(seed, 5 * (i - 1) + 1, w, h)]

\* particles.forEach((particle) => particle.update() ...)
UpdateAll(ps, w, h) == [i \in DOMAIN ps |-> Update(ps[i], w, h)]

\* particles.slice(i + 1) for the forEach index i (0-based), as 1-based indices
SliceFrom(n, i) == [k \in 1..(n - (i + 1)) |-> (i + 1) + k]

\* the nested forEach of lines 112-113: the pairs <<p1, p2>> in the order visited
RECURSIVE PairsFrom(_, _)
PairsFrom(n, i) ==
    IF i >= n THEN <<>>
    ELSE LET s == SliceFrom(n, i)
         IN  [k \in 1..Len(s) |-> <<i + 1, s[k]>>] \o PairsFrom(n, i + 1)

\* lines 114-116
Distance(p1, p2) ==
    LET dx == p1.x - p2.x
        dy == p1.y - p2.y
    IN  Sqrt(dx * dx + dy * dy, Abs(dx) + Abs(dy))

\* line 119: 1 - distance / 150, as the numerator over connectDistance * Unit
Opacity(distance) == connectDistance * Unit - distance

\* the comparison of line 118 with <= for <
ConnectedInclusive(distance) == distance <= connectDistance * Unit

\* line 118
Connected(distance) == distance < connectDistance * Unit

\* lines 114-125 for one pair: what is computed, and stroked if connected
Examine(ps, pr) ==
    LET d == Distance(ps[pr[1]], ps[pr[2]])
    IN  [i |-> pr[1], j |-> pr[2], connected |-> Connected(d), alpha |-> Opacity(d)]

\* lines 112-127: the lines stroked, in order
Connections(ps, prs) ==
    SelectSeq([k \in 1..Len(prs) |-> Examine(ps, prs[k])], LAMBDA l : l.connected)

InvertedX(old, new) == {i \in DOMAIN old : new[i].vx # old[i].vx}
InvertedY(old, new) == {i \in DOMAIN old : new[i].vy # old[i].vy}

\* animate() without the request of line 129
RequestNothing(pending, handle, act) == pending

\* requestAnimationFrame(animate) by the closure of activation act
RequestAnimationFrame(pending, handle, act) ==
    pending \cup {[id |-> handle, act |-> act]}

\* a cleanup that does not cancel the pending request
CancelNothing(pending, id) == pending

\* cancelAnimationFrame(id)
CancelAnimationFrame(pending, id) == {r \in pending : r.id # id}

Max(a, b) == IF a >= b THEN a ELSE b

---------------------------------------------------------------------------
(* The particle effect, lines 43-137. *)

\* animate(), lines 101-128, run on the particles ps of the closure with the
\* canvas at w x h: update (and draw) every particle, then the connections
Animate(ps, w, h) ==
    /\ particles' = UpdateAll(ps, w, h)
    /\ inverted' = [x |-> InvertedX(ps, particles'), y |-> InvertedY(ps, particles')]
    /\ examined' = PairsFrom(Len(particles'), 0)
    /\ lines' = Connections(particles', examined')

Init ==
    /\ mounted = TRUE
    /\ surface \in Surfaces
    /\ \E size \in LayoutSizes : offsetWidth = size[1] /\ offsetHeight = size[2]
    /\ width = defaultCanvasWidth
    /\ height = defaultCanvasHeight
    /\ listener = FALSE
    /\ pstate = "idle"
    /\ activation = 0
    /\ particles = <<>>
    /\ animationId = 0
    /\ rafPending = {}
    /\ nextHandle = 1
    /\ examined = <<>>
    /\ lines = <<>>
    /\ frames = 0
    /\ staleFrames = 0
    /\ inverted = [x |-> {}, y |-> {}]
    /\ invertedBefore = [x |-> {}, y |-> {}]
    /\ resizedBetween = FALSE
    /\ resizedSince = FALSE
    /\ dimsAtUpdate = <<defaultCanvasWidth, defaultCanvasHeight>>
    /\ dimsBefore = <<defaultCanvasWidth, defaultCanvasHeight>>
    /\ maxWidth = defaultCanvasWidth
    /\ maxHeight = defaultCanvasHeight
    /\ resized = FALSE
    /\ created = <<>>
    /\ obs = "idle"
    /\ observed = {}
    /\ isVisible = <<>>
    /\ reported = {}
    /\ leftWhileVisible = FALSE
    /\ event = <<>>
    /\ before = <<>>
    /\ applications = 0

\* the guards without the check of the context (line 48)
SurfaceAvailableNoContextCheck(s) == s # "noCanvas"

\* the guards of lines 44-48
SurfaceAvailable(s) == s = "ok"

\* resizeCanvas with canvas.height taken from offsetWidth
ResizeCanvasSquare(ow, oh) == <<ow, ow>>

\* resizeCanvas, lines 51-54: <<canvas.width, canvas.height>> from the layout size
ResizeCanvas(ow, oh) == <<ow, oh>>

\* the effect callback of lines 43-137: guards, resizeCanvas(), the listener,
\* the 80 particles, the first animate() and its frame request
ParticleEffect(seed) ==
    /\ mounted
    /\ pstate \in {"idle", "skipped", "cleaned"}
    /\ activation < MaxActivations
    /\ activation' = activation + 1
    /\ IF ~SurfaceAvailable(surface)
       THEN /\ pstate' = "skipped"
            /\ UNCHANGED <<width, height, listener, particles, animationId,
                           rafPending, nextHandle, examined, lines,
                           inverted, invertedBefore, resizedBetween, resizedSince,
                           dimsAtUpdate, dimsBefore, maxWidth, maxHeight,
                           resized, created>>
       ELSE LET w == ResizeCanvas(offsetWidth, offsetHeight)[1]
                h == ResizeCanvas(offsetWidth, offsetHeight)[2]
            IN  /\ pstate' = "active"
                /\ width' = w
                /\ height' = h
                /\ listener' = TRUE
                /\ created' = CreateParticles(seed, w, h)
                /\ Animate(created', w, h)
                /\ animationId' = nextHandle
                /\ rafPending' = RequestAnimationFrame(rafPending, nextHandle, activation + 1)
                /\ nextHandle' = nextHandle + 1
                /\ invertedBefore' = [x |-> {}, y |-> {}]
                /\ resizedBetween' = FALSE
                /\ resizedSince' = FALSE
                /\ dimsAtUpdate' = <<w, h>>
                /\ dimsBefore' = <<width, height>>
                /\ maxWidth' = w
                /\ maxHeight' = h
                /\ resized' = FALSE
    /\ UNCHANGED <<mounted, surface, offsetWidth, offsetHeight, frames, staleFrames,
                   rvars, mvars>>

\* the host runs the frame request r: animate() of the closure that made it.
\* A callback of a closure whose cleanup has run would repaint the canvas from
\* its own particles and re-request itself.
Frame(r) ==
    /\ r \in rafPending
    /\ frames < MaxFrames
    /\ frames' = frames + 1
    /\ staleFrames' = IF r.act # activation \/ pstate # "active"
                      THEN staleFrames + 1 ELSE staleFrames
    /\ rafPending' = RequestAnimationFrame(rafPending \ {r}, nextHandle, r.act)
    /\ nextHandle' = nextHandle + 1
    /\ IF r.act = activation /\ pstate = "active"
       THEN /\ Animate(particles, width, height)
            /\ animationId' = nextHandle
            /\ invertedBefore' = inverted
            /\ resizedBetween' = resizedSince
            /\ resizedSince' = FALSE
            /\ dimsAtUpdate' = <<width, height>>
       ELSE UNCHANGED <<particles, examined, lines, animationId, invertedBefore,
                        inverted, resizedBetween, resizedSince, dimsAtUpdate>>
    /\ UNCHANGED <<mounted, surface, offsetWidth, offsetHeight, width, height,
                   listener, pstate, activation, dimsBefore, maxWidth,
                   maxHeight, resized, created, rvars, mvars>>

\* the window fires resize after the layout gave the canvas the new size `size`;
\* resizeCanvas (lines 51-54) runs if it is registered
ResizeEvent(size) ==
    /\ mounted
    /\ size # <<offsetWidth, offsetHeight>>
    /\ offsetWidth' = size[1]
    /\ offsetHeight' = size[2]
    /\ IF listener
       THEN /\ width' = ResizeCanvas(size[1], size[2])[1]
            /\ height' = ResizeCanvas(size[1], size[2])[2]
            /\ dimsBefore' = <<width, height>>
            /\ resizedSince' = TRUE
            /\ maxWidth' = Max(maxWidth, width')
            /\ maxHeight' = Max(maxHeight, height')
            /\ resized' = TRUE
       ELSE UNCHANGED <<width, height, dimsBefore, resizedSince, maxWidth, maxHeight,
                        resized>>
    /\ UNCHANGED <<mounted, surface, listener, pstate, activation, particles,
                   animationId, rafPending, nextHandle, examined, lines, frames,
                   staleFrames, inverted, invertedBefore, resizedBetween,
                   dimsAtUpdate, created, rvars, mvars>>

\* what is recorded of a closure of the effect
cvars == <<particles, animationId, examined, lines, inverted, invertedBefore,
           resizedBetween, resizedSince, dimsAtUpdate, dimsBefore, maxWidth, maxHeight,
           resized, created>>

\* after its cleanup nothing refers to the closure any more: its particles,
\* its animationId and what was recorded of its updates are gone with it
ClosureReleased ==
    /\ particles' = <<>>
    /\ animationId' = 0
    /\ examined' = <<>>
    /\ lines' = <<>>
    /\ inverted' = [x |-> {}, y |-> {}]
    /\ invertedBefore' = [x |-> {}, y |-> {}]
    /\ resizedBetween' = FALSE
    /\ resizedSince' = FALSE
    /\ dimsAtUpdate' = <<defaultCanvasWidth, defaultCanvasHeight>>
    /\ dimsBefore' = <<defaultCanvasWidth, defaultCanvasHeight>>
    /\ maxWidth' = defaultCanvasWidth
    /\ maxHeight' = defaultCanvasHeight
    /\ resized' = FALSE
    /\ created' = <<>>

\* the cleanup of lines 133-136; it exists only if the effect got past its guards
RunParticleCleanup ==
    IF pstate = "active"
    THEN /\ listener' = FALSE
         /\ rafPending' = CancelAnimationFrame(rafPending, animationId)
         /\ pstate' = "cleaned"
         /\ ClosureReleased
    ELSE UNCHANGED <<listener, rafPending, pstate, cvars>>

\* the effect is torn down while the component stays mounted (a remount of the
\* effects); ParticleEffect may run again afterwards
ParticleCleanup ==
    /\ mounted
    /\ pstate = "active"
    /\ RunParticleCleanup
    /\ UNCHANGED <<mounted, surface, offsetWidth, offsetHeight, width, height,
                   activation, nextHandle, frames, staleFrames, rvars, mvars>>

---------------------------------------------------------------------------
(* The reveal observer, lines 140-156. *)

\* the entries a callback invocation can carry for the section id
EntriesOf(id) ==
    {[target |-> id, isIntersecting |-> FALSE, ratio |-> <<0, 1>>]}
    \cup {[target |-> id, isIntersecting |-> TRUE, ratio |-> q] : q \in Ratios}

Entries == UNION {EntriesOf(id) : id \in Sections}

\* the batches of one callback invocation: 1..MaxBatch entries, in any order
Batches == UNION {[1..n -> Entries] : n \in 1..MaxBatch}

\* the observer's option { threshold: 0.1 }: the fraction q reaches it
ReachesThreshold(q) == q[1] * thresholdDen >= thresholdNum * q[2]

\* the updater of line 145 written as a toggle: { ...prev, [id]: !prev[id] }
MarkToggle(prev, id) ==
    [k \in (DOMAIN prev) \cup {id} |->
        IF k = id THEN ~(id \in DOMAIN prev /\ prev[id]) ELSE prev[k]]

\* the updater without the spread of prev: { [entry.target.id]: true }
MarkOnly(prev, id) == [k \in {id} |-> TRUE]

\* the updater of line 145: { ...prev, [entry.target.id]: true }
Mark(prev, id) == [k \in (DOMAIN prev) \cup {id} |-> IF k = id THEN TRUE ELSE prev[k]]

\* the flag the render reads: isVisible.concepts etc. (undefined is falsy)
Flag(m, id) == id \in DOMAIN m /\ m[id]

\* the callback with setIsVisible({ ...isVisible, [id]: true }) for the updater
\* function: every entry spreads the state of the render, the last one wins
CallbackLastOnly(prev, entries) ==
    IF entries = <<>> THEN prev
    ELSE LET entry == entries[Len(entries)]
         IN  IF entry.isIntersecting
             THEN [k \in (DOMAIN prev) \cup {entry.target} |->
                      IF k = entry.target THEN TRUE ELSE prev[k]]
             ELSE prev

\* the callback of lines 142-148: the updaters of the entries, applied in order
RECURSIVE Callback(_, _)
Callback(prev, entries) ==
    IF entries = <<>> THEN prev
    ELSE LET entry == Head(entries)
         IN  Callback(IF entry.isIntersecting THEN Mark(prev, entry.target) ELSE prev,
                      Tail(entries))

\* setIsVisible: React applies the queued updaters to a mounted component and
\* drops them for an unmounted one
SetIsVisible(isMounted, prev, entries) ==
    IF isMounted THEN Callback(prev, entries) ELSE prev

Targets(entries) == {entries[k].target : k \in DOMAIN entries}
Lefts(entries) == {entries[k].target : k \in {n \in DOMAIN entries : ~entries[n].isIntersecting}}
Qualifying(entries) ==
    {entries[k].target : k \in {n \in DOMAIN entries : ReachesThreshold(entries[n].ratio)}}

\* the effect callback of lines 140-153
ObserverEffect ==
    /\ mounted
    /\ obs \in {"idle", "disconnected"}
    /\ obs' = "observing"
    /\ observed' = Sections
    /\ UNCHANGED <<mounted, pvars, isVisible, reported, leftWhileVisible, mvars>>

\* the observer callback runs on a batch of entries
Deliver(entries) ==
    /\ isVisible' = SetIsVisible(mounted, isVisible, entries)
    /\ reported' = reported \cup Qualifying(entries)
    /\ leftWhileVisible' =
           (leftWhileVisible \/ \E id \in Lefts(entries) : Flag(isVisible, id))

\* the host reports intersection changes of observed sections
IntersectionEvent(entries) ==
    /\ obs = "observing"
    /\ Targets(entries) \subseteq observed
    /\ Deliver(entries)
    /\ UNCHANGED <<mounted, pvars, obs, observed, mvars>>

\* the callback is invoked after disconnect(): entries queued before it, or a
\* caller that kept the callback
StaleDelivery(entries) ==
    /\ obs = "disconnected"
    /\ Deliver(entries)
    /\ UNCHANGED <<mounted, pvars, obs, observed, mvars>>

\* the cleanup of line 155
RunObserverCleanup ==
    IF obs = "observing"
    THEN /\ obs' = "disconnected"
         /\ observed' = {}
    ELSE UNCHANGED <<obs, observed>>

\* the effect is torn down while the component stays mounted
ObserverCleanup ==
    /\ mounted
    /\ obs = "observing"
    /\ RunObserverCleanup
    /\ UNCHANGED <<mounted, pvars, isVisible, reported, leftWhileVisible, mvars>>

\* React unmounts the component: the cleanups of both effects run
Unmount ==
    /\ mounted
    /\ mounted' = FALSE
    /\ RunParticleCleanup
    /\ RunObserverCleanup
    /\ UNCHANGED <<surface, offsetWidth, offsetHeight, width, height, activation,
                   nextHandle, frames, staleFrames, isVisible, reported,
                   leftWhileVisible, mvars>>

---------------------------------------------------------------------------
(* The observer callback replayed on one batch of entries. *)

\* the values isVisible takes: each id it holds maps to true
VisibilityMaps == {[id \in S |-> TRUE] : S \in SUBSET Sections}

\* the observer is watching, the callback is about to be invoked on the batch
\* `event` with isVisible at any of its values; the particle effect has not run
MarkingInit ==
    /\ mounted = TRUE
    /\ surface = "ok"
    /\ offsetWidth = 160
    /\ offsetHeight = 120
    /\ width = defaultCanvasWidth
    /\ height = defaultCanvasHeight
    /\ listener = FALSE
    /\ pstate = "idle"
    /\ activation = 0
    /\ particles = <<>>
    /\ animationId = 0
    /\ rafPending = {}
    /\ nextHandle = 1
    /\ examined = <<>>
    /\ lines = <<>>
    /\ frames = 0
    /\ staleFrames = 0
    /\ inverted = [x |-> {}, y |-> {}]
    /\ invertedBefore = [x |-> {}, y |-> {}]
    /\ resizedBetween = FALSE
    /\ resizedSince = FALSE
    /\ dimsAtUpdate = <<defaultCanvasWidth, defaultCanvasHeight>>
    /\ dimsBefore = <<defaultCanvasWidth, defaultCanvasHeight>>
    /\ maxWidth = defaultCanvasWidth
    /\ maxHeight = defaultCanvasHeight
    /\ resized = FALSE
    /\ created = <<>>
    /\ obs = "observing"
    /\ observed = Sections
    /\ isVisible \in VisibilityMaps
    /\ reported = {}
    /\ leftWhileVisible = FALSE
    /\ event \in Batches
    /\ before = isVisible
    /\ applications = 0

\* the callback of lines 142-148 is invoked on the batch `event`, once more
HandleEvent ==
    /\ event # <<>>
    /\ obs \in {"observing", "disconnected"}
    /\ applications < MaxApplications
    /\ applications' = applications + 1
    /\ Deliver(event)
    /\ UNCHANGED <<mounted, pvars, obs, observed, event, before>>

---------------------------------------------------------------------------
(* Specifications.  The two effects share no variable: ParticleSpec runs the  *)
(* particle effect and RevealSpec the reveal observer, each with the unmount  *)
(* of the component; Spec composes all of them.                               *)

ParticleNext ==
    \/ \E seed \in 1..NumSeeds : ParticleEffect(seed)
    \/ \E r \in rafPending : Frame(r)
    \/ \E size \in LayoutSizes : ResizeEvent(size)
    \/ ParticleCleanup
    \/ Unmount

RevealNext ==
    \/ ObserverEffect
    \/ \E entries \in Batches : IntersectionEvent(entries)
    \/ \E entries \in Batches : StaleDelivery(entries)
    \/ ObserverCleanup
    \/ Unmount

MarkingNext ==
    \/ HandleEvent
    \/ Unmount

Next == ParticleNext \/ RevealNext

ParticleSpec == Init /\ [][ParticleNext]_vars
RevealSpec == Init /\ [][RevealNext]_vars
MarkingSpec == MarkingInit /\ [][MarkingNext]_vars
Spec == Init /\ [][Next]_vars

---------------------------------------------------------------------------
(* Claims. *)

Active == pstate = "active"
Indices == DOMAIN particles
Inside(p, w, h) == ~OutsideX(p.x, w) /\ ~OutsideY(p.y, h)
Dist2(p1, p2) == (p1.x - p2.x) * (p1.x - p2.x) + (p1.y - p2.y) * (p1.y - p2.y)
Reach2 == (connectDistance * Unit) * (connectDistance * Unit)

\* C1: visibility is monotonic: no step, whatever the intersection event it
\* handles, resets a flag that is set.
C1_Monotonic ==
    [][\A id \in Sections : Flag(isVisible, id) => Flag(isVisible', id)]_vars

\* a callback has reported a flagged section as not intersecting
C1_Witness == leftWhileVisible /\ \E id \in Sections : Flag(isVisible, id)

\* C2 (as claimed): a section is flagged only if some event reported it with a
\* visible fraction >= 0.1.
C2_FlaggedOnlyIfReported ==
    \A id \in Sections : Flag(isVisible, id) => id \in reported

\* C3: while the effect is active the one pending frame request is the one
\* animationId names; once the effect is torn down no request is pending, and
\* no frame callback has run for a closure after its cleanup.
C3_NoFrameAfterTeardown ==
    /\ staleFrames = 0
    /\ Active => rafPending = {[id |-> animationId, act |-> activation]}
    /\ (pstate = "cleaned" \/ ~mounted) => rafPending = {}

\* the effect was torn down after frames had run
C3_Witness == pstate = "cleaned" /\ frames >= 2 /\ rafPending = {}

\* C4 (as claimed): after the teardown of the reveal observer no step changes
\* the visibility map.
C4_NoChangeAfterTeardown ==
    [][obs = "disconnected" => isVisible' = isVisible]_vars

\* C5: while the effect is active the collection holds exactly 80 particles.
C5_ParticleCount == Active => Len(particles) = 80

\* active after a resize and frames
C5_Witness == Active /\ frames >= 2 /\ resizedBetween /\ Len(particles) = 80

\* C6 (as claimed): a component is inverted by an update exactly if the
\* coordinate it advanced lies strictly outside the canvas, and it is not
\* inverted by two updates in a row (a resize between the two aside).
C6_OncePerCrossing ==
    Active =>
        \A i \in Indices :
            /\ (i \in inverted.x) <=>
                   (particles[i].vx # 0 /\ OutsideX(particles[i].x, dimsAtUpdate[1]))
            /\ (i \in inverted.y) <=>
                   (particles[i].vy # 0 /\ OutsideY(particles[i].y, dimsAtUpdate[2]))
            /\ ~(i \in inverted.x /\ i \in invertedBefore.x /\ ~resizedBetween)
            /\ ~(i \in inverted.y /\ i \in invertedBefore.y /\ ~resizedBetween)

\* C7 (as claimed): every particle lies within the current canvas.
C7_AlwaysInside ==
    Active => \A i \in Indices : Inside(particles[i], width, height)

\* C7 (amended): every coordinate stays within one velocity step, at most a
\* quarter of a pixel, of the range from 0 to the largest width (height) the
\* canvas has had since the particles were created.
C7_NearLargestCanvas ==
    Active =>
        \A i \in Indices :
            LET p == particles[i]
            IN  /\ 4 * Abs(p.vx) <= Unit
                /\ 4 * Abs(p.vy) <= Unit
                /\ -Abs(p.vx) <= p.x
                /\ p.x <= maxWidth * Unit + Abs(p.vx)
                /\ -Abs(p.vy) <= p.y
                /\ p.y <= maxHeight * Unit + Abs(p.vy)

\* with no resize, frames have run and a particle lies outside the canvas
C7_Witness ==
    /\ Active
    /\ frames >= 1
    /\ <<maxWidth, maxHeight>> = <<width, height>>
    /\ \E i \in Indices : ~Inside(particles[i], width, height)

\* C8: a frame examines every unordered pair once, and strokes a line for
\* exactly the pairs whose distance after the update is below 150, with
\* opacity 1 - d/150.
C8_Connections ==
    Active =>
        LET n == Len(particles)
            near == SelectSeq(examined,
                        LAMBDA pr : Dist2(particles[pr[1]], particles[pr[2]]) < Reach2)
        IN  /\ 2 * Len(examined) = n * (n - 1)
            /\ {examined[k] : k \in DOMAIN examined}
                   = {pr \in (1..n) \X (1..n) : pr[1] < pr[2]}
            /\ [m \in DOMAIN lines |-> <<lines[m].i, lines[m].j>>] = near
            /\ \A m \in DOMAIN lines :
                   LET d == connectDistance * Unit - lines[m].alpha
                       d2 == Dist2(particles[lines[m].i], particles[lines[m].j])
                   IN  d >= 0 /\ d * d <= d2 /\ d2 < (d + 1) * (d + 1)

\* a frame with a pair at 150 exactly, which has no line, and a pair at 75
\* exactly, whose line has opacity 1/2
C8_Witness ==
    /\ Active
    /\ \E k \in DOMAIN examined :
           /\ Dist2(particles[examined[k][1]], particles[examined[k][2]]) = Reach2
           /\ \A m \in DOMAIN lines : <<lines[m].i, lines[m].j>> # examined[k]
    /\ \E m \in DOMAIN lines :
           /\ 4 * Dist2(particles[lines[m].i], particles[lines[m].j]) = Reach2
           /\ 2 * lines[m].alpha = connectDistance * Unit

\* C9: with the drawing surface unavailable the effect does nothing, whatever
\* comes later.
C9_UnavailableIsNoop ==
    surface # "ok" =>
        /\ pstate \in {"idle", "skipped"}
        /\ particles = <<>>
        /\ rafPending = {}
        /\ animationId = 0
        /\ frames = 0
        /\ ~listener
        /\ <<width, height>> = <<defaultCanvasWidth, defaultCanvasHeight>>

\* the effect ran twice without a context, and the component was unmounted
C9_Witness ==
    surface = "noContext" /\ pstate = "skipped" /\ activation >= 2 /\ ~mounted

\* C10: a resize handled by the effect sets the canvas to the layout size and
\* leaves every particle as it was; an update decides its inversions with the
\* dimensions of the latest resize.
C10_ResizeOnlyDims ==
    [][/\ (listener /\ <<offsetWidth', offsetHeight'>> # <<offsetWidth, offsetHeight>>) =>
              /\ <<width', height'>> = <<offsetWidth', offsetHeight'>>
              /\ particles' = particles
              /\ <<examined', lines', animationId', rafPending'>> =
                     <<examined, lines, animationId, rafPending>>
       /\ (Active' /\ ~resizedSince') =>
              /\ dimsAtUpdate' = <<width', height'>>
              /\ \A i \in DOMAIN particles' :
                     /\ (i \in inverted'.x) <=>
                            (particles'[i].vx # 0 /\ OutsideX(particles'[i].x, width'))
                     /\ (i \in inverted'.y) <=>
                            (particles'[i].vy # 0 /\ OutsideY(particles'[i].y, height'))
      ]_vars

\* after a resize an update inverted a particle that lay inside the old canvas
C10_Witness ==
    /\ Active
    /\ resizedBetween
    /\ ~resizedSince
    /\ dimsBefore # <<width, height>>
    /\ \E i \in inverted.x : ~OutsideX(particles[i].x, dimsBefore[1])

\* the ids the entries of a batch report as intersecting
Intersecting(entries) ==
    {entries[k].target : k \in {n \in DOMAIN entries : entries[n].isIntersecting}}
Flagged(m) == {id \in Sections : Flag(m, id)}

\* C11: in a mounted component an invocation of the callback yields the
\* previous map with exactly the sections its entries report as intersecting
\* set to true: every entry of the batch takes effect, the flag of every
\* other section is as before, and the particle state is untouched.
C11_MarksExactlyReported ==
    [][(applications' # applications /\ mounted) =>
          /\ DOMAIN isVisible' = (DOMAIN isVisible) \cup Intersecting(event)
          /\ \A id \in Intersecting(event) : isVisible'[id] = TRUE
          /\ \A id \in (DOMAIN isVisible) \ Intersecting(event) :
                 isVisible'[id] = isVisible[id]
          /\ \A id \in Sections \ Intersecting(event) :
                 Flag(isVisible', id) = Flag(isVisible, id)
          /\ pvars' = pvars
      ]_vars

\* one invocation marked two sections, a third was visible before and a
\* fourth is still not
C11_Witness ==
    /\ mounted
    /\ applications = 1
    /\ Cardinality(Intersecting(event)) >= 2
    /\ Intersecting(event) \cap Flagged(before) = {}
    /\ Flagged(before) # {}
    /\ Flagged(isVisible) = Flagged(before) \cup Intersecting(event)
    /\ Flagged(isVisible) # Sections

\* C12: marking is idempotent: an invocation on a batch whose intersecting
\* sections are all visible already leaves the map equal, and so does every
\* invocation on a batch after the first.
C12_Idempotent ==
    [][(applications' # applications) =>
          /\ Intersecting(event) \subseteq Flagged(isVisible) => isVisible' = isVisible
          /\ applications >= 1 => isVisible' = isVisible
      ]_vars

\* a batch with an entry at or above the threshold changed the map when it was
\* handled first and has been handled again
C12_Witness ==
    /\ mounted
    /\ applications >= 2
    /\ Qualifying(event) # {}
    /\ isVisible # before
    /\ Flagged(isVisible) = Flagged(before) \cup Intersecting(event)

\* how far a coordinate c lies outside [0, limit]
Overshoot(c, limit) == IF c < 0 THEN -c ELSE IF c > limit THEN c - limit ELSE 0

\* an update of the live closure with no resize since its particles were created
UpdateWithoutResize == frames' # frames /\ Active /\ Active' /\ ~resized'

\* C13 (as claimed): with no resize a particle that an update leaves outside
\* the canvas is inside it or on its boundary after the next update, and it
\* never overshoots by more than the velocity component.
C13_OutsideOneFrame ==
    [][UpdateWithoutResize =>
          \A i \in DOMAIN particles :
              /\ ~Inside(particles[i], width, height) => Inside(particles'[i], width', height')
              /\ Overshoot(particles'[i].x, width' * Unit) <= Abs(particles'[i].vx)
              /\ Overshoot(particles'[i].y, height' * Unit) <= Abs(particles'[i].vy)
      ]_vars

\* C13 (amended): with no resize each coordinate is outside its range after
\* at most one update in a row: a coordinate an update leaves outside is
\* inside or on the boundary after the next update, and the overshoot never
\* exceeds the velocity component, which is at most a quarter of a pixel.
C13_CoordinateBackNextFrame ==
    [][(Active' /\ ~resized') =>
          \A i \in DOMAIN particles' :
              LET q == particles'[i]
              IN  /\ Overshoot(q.x, width' * Unit) <= Abs(q.vx)
                  /\ Overshoot(q.y, height' * Unit) <= Abs(q.vy)
                  /\ 4 * Abs(q.vx) <= Unit
                  /\ 4 * Abs(q.vy) <= Unit
                  /\ UpdateWithoutResize =>
                         /\ OutsideX(particles[i].x, width) => ~OutsideX(q.x, width')
                         /\ OutsideY(particles[i].y, height) => ~OutsideY(q.y, height')
      ]_vars

\* with no resize, a particle left outside on x by one update is back inside
\* on x after the next, which leaves it outside on y
C13_Witness ==
    /\ Active
    /\ ~resized
    /\ frames >= 1
    /\ \E i \in invertedBefore.x :
           /\ ~OutsideX(particles[i].x, width)
           /\ OutsideY(particles[i].y, height)

\* C14: at most one frame callback is pending at any time, and exactly one
\* whenever the particle effect is active, through frames, resize events and
\* repeated runs and teardowns of the effect.
C14_OnePendingFrame ==
    /\ Cardinality(rafPending) <= 1
    /\ Active => Cardinality(rafPending) = 1

\* the second run of the effect, after a frame of its own and a resize
C14_Witness ==
    /\ activation >= 2
    /\ Active
    /\ resized
    /\ frames >= 2
    /\ invertedBefore # [x |-> {}, y |-> {}]
    /\ Cardinality(rafPending) = 1

\* C15: every particle keeps the magnitude of vx and of vy and the radius its
\* constructor gave it: updates change a velocity component by its sign only,
\* and resize events change no particle.
C15_SpeedAndRadiusKept ==
    Active =>
        /\ DOMAIN particles = DOMAIN created
        /\ \A i \in Indices :
               /\ Abs(particles[i].vx) = Abs(created[i].vx)
               /\ Abs(particles[i].vy) = Abs(created[i].vy)
               /\ particles[i].size = created[i].size

\* after frames and a resize a particle moves with vx inverted and another
\* with vy inverted, against the velocities they were created with
C15_Witness ==
    /\ Active
    /\ resized
    /\ frames >= 2
    /\ \E i \in Indices :
           particles[i].vx # 0 /\ particles[i].vx = -created[i].vx
    /\ \E i \in Indices :
           particles[i].vy # 0 /\ particles[i].vy = -created[i].vy

====
